---- MODULE Spec2Model ----
(***************************************************************************)
(* Slide navigation and layout-ratio parsing of AutoArtifacts              *)
(* (src/src/utils/slideNavigation.ts, src/src/components/SlideEditor.tsx). *)
(*                                                                         *)
(* The rendered slide collection is the list of elements matching          *)
(* [data-node-type="slide"]; each element carries style.display and the    *)
(* data-active attribute.  One action models one whole call of an exported *)
(* function or of a key handler.                                           *)
(***************************************************************************)
EXTENDS Integers, Sequences, FiniteSets, TLC

VARIABLES
    slides,        \* the slide elements, in document order
    call,          \* the last navigation call: arguments, state before, effects
    everNotified,  \* every index ever passed to onSlideChange
    layout,        \* parseLayout: the layout argument (a sequence of characters)
    columnCount,   \* parseLayout: the columnCount argument
    parsed,        \* parseLayout: outcome of the call on (layout, columnCount)
    attached,      \* rendered tree: which elements are in the document
    dataLayout,    \* rendered tree: the data-layout attribute of every row
    flex,          \* rendered tree: the inline style.flex of every element
    resolved,      \* the last operation on the rendered tree
    candidate,     \* validator: the content handed to the entry point
    verdict,       \* validator: outcome of the last entry-point call
    props,         \* SlideEditor: the props of the last render
    phase,         \* SlideEditor: "initial", "mounted" or "unmounted"
    editorRef,     \* SlideEditor: editorRef.current is the editor element
    viewRef,       \* SlideEditor: viewRef.current: "null", or the state of its view
    cleanup,       \* SlideEditor: the editor effect has a cleanup to run
    rendered,      \* SlideEditor: the slide elements below the editor element
    unswept,       \* SlideEditor: the rendered tree changed since the last sweep
    pending,       \* SlideEditor: the setTimeout callbacks not yet run
    keydown,       \* SlideEditor: handleKeyDown is a listener of the document
    commit,        \* SlideEditor: what the last step did
    hook           \* useSlideEditor: one mount of the hook

vars == <<slides, call, everNotified, layout, columnCount, parsed,
          attached, dataLayout, flex, resolved, candidate, verdict,
          props, phase, editorRef, viewRef, cleanup, rendered, unswept, pending,
          keydown, commit, hook>>
navVars == <<slides, call, everNotified>>
layoutVars == <<layout, columnCount, parsed>>
treeVars == <<attached, dataLayout, flex, resolved>>
validVars == <<candidate, verdict>>
editorVars == <<props, phase, editorRef, viewRef, cleanup, rendered, unswept, pending,
                keydown, commit>>
hookVars == <<hook>>

\* ------------------------------------------------------------------ bounds
MaxSlides == 3

\* ------------------------------------------------------------ DOM of a slide
\* getAttribute("data-active") of an element without the attribute
NoAttr == "null"

\* a slide element as the editing engine renders it: no inline display, no marker
FreshSlide == [display |-> "", active |-> NoAttr]

\* style.display = "none" hides the element; "" and "block" leave it visible
Visible(s) == s.display # "none"

MarkedActive(s) == s.active = "true"

\* slides.length
getSlideCount(ss) == Len(ss)

\* the index arguments tried: every valid index and out-of-range ones on both sides
IndexArgs == (-2) .. (MaxSlides + 1)

\* ------------------------------------------------------- slideNavigation.ts
\* variant: the upper bound check is off by one
showSlideValid_offByOne(ss, slideIndex) == ~(slideIndex < 0 \/ slideIndex > Len(ss))

showSlideValid(ss, slideIndex) == ~(slideIndex < 0 \/ slideIndex >= Len(ss))

\* the console.warn of showSlide, as the two numbers it interpolates
showSlideWarning(ss, slideIndex) == [index |-> slideIndex, max |-> Len(ss) - 1]

\* variant: the else branch of the forEach is missing, the other slides keep their state
showSlide_keepOthers(ss, slideIndex) ==
    IF ~showSlideValid(ss, slideIndex)
    THEN ss
    ELSE [k \in 1 .. Len(ss) |->
            IF k - 1 = slideIndex
            THEN [display |-> "block", active |-> "true"]
            ELSE ss[k]]

\* variant: the display of the slide shown is toggled instead of set
showSlide_toggle(ss, slideIndex) ==
    IF ~showSlideValid(ss, slideIndex)
    THEN ss
    ELSE [k \in 1 .. Len(ss) |->
            IF k - 1 = slideIndex
            THEN [display |-> IF ss[k].display = "block" THEN "" ELSE "block",
                  active |-> "true"]
            ELSE [display |-> "none", active |-> "false"]]

\* the slides after showSlide(editorElement, slideIndex); indices are zero-based
showSlide(ss, slideIndex) ==
    IF ~showSlideValid(ss, slideIndex)
    THEN ss
    ELSE [k \in 1 .. Len(ss) |->
            IF k - 1 = slideIndex
            THEN [display |-> "block", active |-> "true"]
            ELSE [display |-> "none", active |-> "false"]]

showSlideWarnings(ss, slideIndex) ==
    IF showSlideValid(ss, slideIndex) THEN << >> ELSE << showSlideWarning(ss, slideIndex) >>

\* variant: the marker is not removed
showAllSlides_keepMarker(ss) ==
    [k \in 1 .. Len(ss) |-> [display |-> "block", active |-> ss[k].active]]

\* the slides after showAllSlides(editorElement)
showAllSlides(ss) == [k \in 1 .. Len(ss) |-> [display |-> "block", active |-> NoAttr]]

\* variant: returns the one-based position
getCurrentSlideIndex_oneBased(ss) ==
    IF \E k \in 1 .. Len(ss) : ss[k].active = "true"
    THEN CHOOSE k \in 1 .. Len(ss) :
             /\ ss[k].active = "true"
             /\ \A j \in 1 .. (k - 1) : ss[j].active # "true"
    ELSE 0

\* variant: -1 when no slide is marked
getCurrentSlideIndex_minusOne(ss) ==
    IF \E k \in 1 .. Len(ss) : ss[k].active = "true"
    THEN (CHOOSE k \in 1 .. Len(ss) :
             /\ ss[k].active = "true"
             /\ \A j \in 1 .. (k - 1) : ss[j].active # "true") - 1
    ELSE -1

\* first index whose data-active is "true", 0 if there is none
getCurrentSlideIndex(ss) ==
    IF \E k \in 1 .. Len(ss) : ss[k].active = "true"
    THEN (CHOOSE k \in 1 .. Len(ss) :
             /\ ss[k].active = "true"
             /\ \A j \in 1 .. (k - 1) : ss[j].active # "true") - 1
    ELSE 0

\* variant: the callback is invoked twice
Notify_twice(cb, index, ss) ==
    IF cb
    THEN << [index |-> index, current |-> getCurrentSlideIndex(ss)],
            [index |-> index, current |-> getCurrentSlideIndex(ss)] >>
    ELSE << >>

\* onSlideChange is optional: the calls made to it by one notification site,
\* each with its argument and the current index the callback would read then
Notify(cb, index, ss) ==
    IF cb THEN << [index |-> index, current |-> getCurrentSlideIndex(ss)] >> ELSE << >>

\* variant: the last slide is not excluded
canGoNext_inclusive(currentIndex, slideCount) == currentIndex <= slideCount - 1

\* nextSlide moves only when the current slide is not the last one
canGoNext(currentIndex, slideCount) == currentIndex < slideCount - 1

\* prevSlide moves only when the current slide is not the first one
canGoPrev(currentIndex) == currentIndex > 0

NoCall ==
    [op |-> "none", arg |-> 0, cb |-> FALSE, pre |-> << >>,
     warned |-> << >>, notified |-> << >>, ret |-> 0]

Record(op, arg, cb, pre, warned, notified, ret) ==
    [op |-> op, arg |-> arg, cb |-> cb, pre |-> pre,
     warned |-> warned, notified |-> notified, ret |-> ret]

NotifiedSet(s) == { s[k].index : k \in 1 .. Len(s) }

\* one call with its effects on the DOM, the console and the callback
Effect(op, arg, cb, post, warned, notified, ret) ==
    /\ slides' = post
    /\ call' = Record(op, arg, cb, slides, warned, notified, ret)
    /\ everNotified' = everNotified \cup NotifiedSet(notified)
    /\ UNCHANGED <<layoutVars, treeVars, validVars, editorVars, hookVars>>

ShowSlide ==
    \E i \in IndexArgs :
        Effect("showSlide", i, FALSE, showSlide(slides, i),
               showSlideWarnings(slides, i), << >>, 0)

ShowAllSlides ==
    Effect("showAllSlides", 0, FALSE, showAllSlides(slides), << >>, << >>, 0)

GetCurrentSlideIndex ==
    Effect("getCurrentSlideIndex", 0, FALSE, slides, << >>, << >>,
           getCurrentSlideIndex(slides))

NextSlide ==
    \E cb \in BOOLEAN :
        LET currentIndex == getCurrentSlideIndex(slides)
            slideCount == getSlideCount(slides)
            newIndex == currentIndex + 1
        IN  IF canGoNext(currentIndex, slideCount)
            THEN Effect("nextSlide", 0, cb, showSlide(slides, newIndex),
                        showSlideWarnings(slides, newIndex),
                        Notify(cb, newIndex, showSlide(slides, newIndex)), 0)
            ELSE Effect("nextSlide", 0, cb, slides, << >>, << >>, 0)

PrevSlide ==
    \E cb \in BOOLEAN :
        LET currentIndex == getCurrentSlideIndex(slides)
            newIndex == currentIndex - 1
        IN  IF canGoPrev(currentIndex)
            THEN Effect("prevSlide", 0, cb, showSlide(slides, newIndex),
                        showSlideWarnings(slides, newIndex),
                        Notify(cb, newIndex, showSlide(slides, newIndex)), 0)
            ELSE Effect("prevSlide", 0, cb, slides, << >>, << >>, 0)

GoToSlide ==
    \E i \in IndexArgs, cb \in BOOLEAN :
        Effect("goToSlide", i, cb, showSlide(slides, i),
               showSlideWarnings(slides, i), Notify(cb, i, showSlide(slides, i)), 0)

\* ------------------------------------- SlideEditor.tsx, handleKeyDown
KeyHome ==
    \E cb \in BOOLEAN :
        Effect("keyHome", 0, cb, showSlide(slides, 0),
               showSlideWarnings(slides, 0), Notify(cb, 0, showSlide(slides, 0)), 0)

KeyEnd ==
    \E cb \in BOOLEAN :
        LET lastIndex == Len(slides) - 1
        IN  Effect("keyEnd", lastIndex, cb, showSlide(slides, lastIndex),
                   showSlideWarnings(slides, lastIndex),
                   Notify(cb, lastIndex, showSlide(slides, lastIndex)), 0)

\* ------------------------------------------------ parseLayout: its inputs
MaxLayoutLen == 5
MaxColumns == 3

\* the characters the layout strings are built from: digits, the hyphen and
\* a character that is neither
Alphabet == {"0", "1", "2", "-", "a"}

\* \d of the regular expression
Digits == {"0", "1", "2", "3", "4", "5", "6", "7", "8", "9"}

DigitValue(c) ==
    CASE c = "0" -> 0 [] c = "1" -> 1 [] c = "2" -> 2 [] c = "3" -> 3 [] c = "4" -> 4
      [] c = "5" -> 5 [] c = "6" -> 6 [] c = "7" -> 7 [] c = "8" -> 8 [] c = "9" -> 9

\* a layout that is not a string at all (undefined, or the null of a missing attribute)
Absent == << "undefined" >>

\* the number of significant decimal digits from which Number() of a digit
\* string is Infinity: every integer of 310 digits exceeds Number.MAX_VALUE
\* (about 1.8 * 10^308)
InfinityDigits == 310

\* a segment of InfinityDigits nines
LongSegment == [k \in 1 .. InfinityDigits |-> "9"]

\* every string over Alphabet of at most MaxLayoutLen characters, and no string
ShortLayouts == UNION { [1 .. n -> Alphabet] : n \in 0 .. MaxLayoutLen } \cup { Absent }

\* well-formed layouts of one and of two segments with a segment beyond the
\* range of a double
LongLayouts == { LongSegment, << "1", "-" >> \o LongSegment }

\* the keyword the row schema and the documentation use for equal distribution
AutoLayout == << "a", "u", "t", "o" >>

KeywordLayouts == { AutoLayout }

\* ------------------------------------------------ JavaScript numbers
\* a number is a finite value or Infinity
JSNumber(n) == [finite |-> TRUE, value |-> n]

JSInfinity == [finite |-> FALSE, value |-> 0]

\* the digit string without its leading zeros (the last digit always stays;
\* the empty string, which Number() takes for 0, stays empty)
StripLeadingZeros(seg) ==
    LET nonZero == { k \in 1 .. Len(seg) : seg[k] # "0" }
        first == IF nonZero = {} THEN Len(seg)
                 ELSE CHOOSE k \in nonZero : \A j \in nonZero : k <= j
    IN  IF seg = << >> THEN seg ELSE SubSeq(seg, first, Len(seg))

RECURSIVE DecimalFrom(_, _)
\* the value of the digit string seg read left to right, acc being the value so far
DecimalFrom(seg, acc) ==
    IF seg = << >> THEN acc ELSE DecimalFrom(Tail(seg), acc * 10 + DigitValue(Head(seg)))

\* Number(seg) for a segment the regular expression accepted (digits only).
\* Segments of 16 to 309 significant digits, for which Number() is the nearest
\* double, are not among the layouts tried.
Number(seg) ==
    IF Len(StripLeadingZeros(seg)) >= InfinityDigits
    THEN JSInfinity
    ELSE JSNumber(DecimalFrom(seg, 0))

\* ------------------------------------------------ parseLayout
\* variant: only a missing layout is taken for the default, not the empty string
IsFalsy_absentOnly(s) == s = Absent

\* !layout
IsFalsy(s) == s = << >> \/ s = Absent

\* variant: the expression is /^\d+(-\d*)*$/, a hyphen need not be followed by a digit
LayoutRegexTest_emptySegment(s) ==
    /\ Len(s) >= 1
    /\ \A k \in 1 .. Len(s) :
          \/ s[k] \in Digits
          \/ /\ s[k] = "-"
             /\ 1 < k

\* /^\d+(-\d+)*$/.test(s): s is not empty, consists of digits and hyphens, and
\* every hyphen stands between two digits
LayoutRegexTest(s) ==
    /\ Len(s) >= 1
    /\ \A k \in 1 .. Len(s) :
          \/ s[k] \in Digits
          \/ /\ s[k] = "-"
             /\ 1 < k /\ k < Len(s)
             /\ s[k - 1] \in Digits
             /\ s[k + 1] \in Digits

\* layout.split("-"): one more segment than s has hyphens; segment j lies
\* between the (j-1)-th and the j-th hyphen
Split(s) ==
    LET hyphens == { k \in 1 .. Len(s) : s[k] = "-" }
        nth(j) == IF j = 0 THEN 0
                  ELSE IF j = Cardinality(hyphens) + 1 THEN Len(s) + 1
                  ELSE CHOOSE k \in hyphens : Cardinality({ h \in hyphens : h < k }) = j - 1
    IN  [j \in 1 .. (Cardinality(hyphens) + 1) |-> SubSeq(s, nth(j - 1) + 1, nth(j) - 1)]

\* new Array(columnCount).fill(1)
EqualDistribution(n) == [k \in 1 .. n |-> JSNumber(1)]

\* layout.split("-").map(Number)
Ratios(s) == LET segs == Split(s) IN [k \in 1 .. Len(segs) |-> Number(segs[k])]

\* variant: only too many segments count as a mismatch
CountMatches_atMost(ratios, n) == Len(ratios) <= n

\* variant: the column count is not compared
CountMatches_always(ratios, n) == TRUE

\* ratios.length !== columnCount, negated
CountMatches(ratios, n) == Len(ratios) = n

\* the outcome of parseLayout(layout, columnCount): the array returned and the
\* console.warn calls made
parseLayout(s, n) ==
    IF IsFalsy(s)
    THEN [ratios |-> EqualDistribution(n), warned |-> << >>]
    ELSE IF ~LayoutRegexTest(s)
    THEN [ratios |-> EqualDistribution(n),
          warned |-> << [kind |-> "format", layout |-> s] >>]
    ELSE IF ~CountMatches(Ratios(s), n)
    THEN [ratios |-> EqualDistribution(n),
          warned |-> << [kind |-> "count", layout |-> s,
                         expects |-> Len(Ratios(s)), found |-> n] >>]
    ELSE [ratios |-> Ratios(s), warned |-> << >>]

NotParsed == [done |-> FALSE, ratios |-> << >>, warned |-> << >>]

ParseLayout ==
    /\ ~parsed.done
    /\ parsed' = [done |-> TRUE,
                  ratios |-> parseLayout(layout, columnCount).ratios,
                  warned |-> parseLayout(layout, columnCount).warned]
    /\ UNCHANGED <<layout, columnCount>>
    /\ UNCHANGED <<navVars, treeVars, validVars, editorVars, hookVars>>

\* ------------------------------------------------ the rendered tree
\* The elements of the rendered tree used for layout resolution, numbered in
\* document order: an outer row (1) with two columns (2, 3), the second of
\* which holds an inner row (4) with three columns (5, 6, 7).
TreeParent == << 0, 1, 1, 3, 4, 4, 4 >>

\* the data-node-type of each element
TreeTag == << "row", "column", "column", "row", "column", "column", "column" >>

Elements == 1 .. Len(TreeParent)

RowElements == { e \in Elements : TreeTag[e] = "row" }

\* the columns the editing engine adds and removes: those without descendants
LeafColumns == { e \in Elements : TreeTag[e] = "column" /\ \A c \in Elements : TreeParent[c] # e }

\* the values of data-layout tried: no attribute, 'auto', accepted layouts of
\* two and of three segments, a malformed layout
RowLayouts ==
    { Absent, AutoLayout, << "2", "-", "1" >>, << "1", "-", "1", "-", "1" >>, << "2", "-" >> }

\* an element without inline flex
NoFlex == [set |-> FALSE, grow |-> JSNumber(0), shrink |-> 0, basis |-> 0]

\* variant: the directive is `${ratio} 0 0%`
FlexDirective_noShrink(ratio) == [set |-> TRUE, grow |-> ratio, shrink |-> 0, basis |-> 0]

\* the value `${ratio} 1 0%` of style.flex, by its three parts
FlexDirective(ratio) == [set |-> TRUE, grow |-> ratio, shrink |-> 1, basis |-> 0]

\* .column { flex: 1 } of the style sheet applies where no inline flex is set
CssDefaultGrow == 1

RECURSIVE InDocument(_, _)
\* e is connected to the editor element (0) under the attachment att
InDocument(att, e) ==
    IF e = 0 THEN TRUE
    ELSE att[e] /\ InDocument(att, TreeParent[e])

\* the elements of a set, in document order
InOrder(S) ==
    LET rank(e) == Cardinality({ x \in S : x < e })
    IN  [i \in 1 .. Cardinality(S) |-> CHOOSE e \in S : rank(e) = i - 1]

\* Array.from(rowElement.children)
Children(att, r) == InOrder({ e \in Elements : TreeParent[e] = r /\ att[e] })

\* editorElement.querySelectorAll('[data-node-type="row"]')
QueryRows(att) == InOrder({ r \in RowElements : InDocument(att, r) })

IndexIn(seq, e) == CHOOSE i \in 1 .. Len(seq) : seq[i] = e

IsIn(seq, e) == \E i \in 1 .. Len(seq) : seq[i] = e

\* ------------------------------------------------ applyLayoutToRow
\* variant: the ratios are assigned to every column below the row, not to its children
applyLayoutToRow_descendants(att, fx, r, l) ==
    LET columns == InOrder({ e \in Elements : TreeTag[e] = "column" /\ e > r /\ att[e] })
        ratios == parseLayout(l, Len(columns)).ratios
    IN  [e \in Elements |->
            IF IsIn(columns, e) THEN FlexDirective(ratios[IndexIn(columns, e)]) ELSE fx[e]]

\* the inline flex of every element after applyLayoutToRow(rowElement, layout)
applyLayoutToRow(att, fx, r, l) ==
    LET columns == Children(att, r)
        ratios == parseLayout(l, Len(columns)).ratios
    IN  [e \in Elements |->
            IF IsIn(columns, e) THEN FlexDirective(ratios[IndexIn(columns, e)]) ELSE fx[e]]

\* the console.warn calls of applyLayoutToRow(rowElement, layout)
applyLayoutToRowWarnings(att, r, l) == parseLayout(l, Len(Children(att, r))).warned

\* ------------------------------------------------ applyAllLayouts
\* layout && layout !== 'auto'
LayoutSpecified(l) == ~IsFalsy(l) /\ l # AutoLayout

RECURSIVE SweepFrom(_, _, _, _, _)
\* rows.forEach from the k-th row on, fx being the inline flex so far
SweepFrom(att, dl, rows, k, fx) ==
    IF k > Len(rows) THEN fx
    ELSE SweepFrom(att, dl, rows, k + 1,
                   IF LayoutSpecified(dl[rows[k]])
                   THEN applyLayoutToRow(att, fx, rows[k], dl[rows[k]])
                   ELSE fx)

\* the inline flex of every element after applyAllLayouts(editorElement)
applyAllLayouts(att, dl, fx) == SweepFrom(att, dl, QueryRows(att), 1, fx)

RECURSIVE SweepWarningsFrom(_, _, _, _)
SweepWarningsFrom(att, dl, rows, k) ==
    IF k > Len(rows) THEN << >>
    ELSE (IF LayoutSpecified(dl[rows[k]])
          THEN applyLayoutToRowWarnings(att, rows[k], dl[rows[k]])
          ELSE << >>) \o SweepWarningsFrom(att, dl, rows, k + 1)

NotResolved == [op |-> "none", row |-> 0, layout |-> Absent, warned |-> << >>]

\* a direct call of applyLayoutToRow on a row of the document
ApplyLayoutToRow ==
    \E r \in RowElements, l \in RowLayouts :
        /\ InDocument(attached, r)
        /\ flex' = applyLayoutToRow(attached, flex, r, l)
        /\ resolved' = [op |-> "applyLayoutToRow", row |-> r, layout |-> l,
                        warned |-> applyLayoutToRowWarnings(attached, r, l)]
        /\ UNCHANGED <<attached, dataLayout>>
        /\ UNCHANGED <<navVars, layoutVars, validVars, editorVars, hookVars>>

ApplyAllLayouts ==
    /\ flex' = applyAllLayouts(attached, dataLayout, flex)
    /\ resolved' = [op |-> "applyAllLayouts", row |-> 0, layout |-> Absent,
                    warned |-> SweepWarningsFrom(attached, dataLayout, QueryRows(attached), 1)]
    /\ UNCHANGED <<attached, dataLayout>>
    /\ UNCHANGED <<navVars, layoutVars, validVars, editorVars, hookVars>>

\* the editing engine changes the layout of a row in place: the row's
\* attribute changes, its child elements stay
SetDataLayout ==
    \E r \in RowElements, l \in RowLayouts :
        /\ dataLayout[r] # l
        /\ dataLayout' = [dataLayout EXCEPT ![r] = l]
        /\ resolved' = [op |-> "setDataLayout", row |-> r, layout |-> l, warned |-> << >>]
        /\ UNCHANGED <<attached, flex>>
        /\ UNCHANGED <<navVars, layoutVars, validVars, editorVars, hookVars>>

\* the editing engine inserts a new column element
InsertColumn ==
    \E c \in LeafColumns :
        /\ ~attached[c]
        /\ attached' = [attached EXCEPT ![c] = TRUE]
        /\ flex' = [flex EXCEPT ![c] = NoFlex]
        /\ resolved' = [op |-> "insertColumn", row |-> TreeParent[c], layout |-> Absent,
                        warned |-> << >>]
        /\ UNCHANGED dataLayout
        /\ UNCHANGED <<navVars, layoutVars, validVars, editorVars, hookVars>>

\* the editing engine removes a column element
RemoveColumn ==
    \E c \in LeafColumns :
        /\ attached[c]
        /\ attached' = [attached EXCEPT ![c] = FALSE]
        /\ flex' = [flex EXCEPT ![c] = NoFlex]
        /\ resolved' = [op |-> "removeColumn", row |-> TreeParent[c], layout |-> Absent,
                        warned |-> << >>]
        /\ UNCHANGED dataLayout
        /\ UNCHANGED <<navVars, layoutVars, validVars, editorVars, hookVars>>

\* ------------------------------------------------ validation: JSON values
MaxDocSlides == 2
MaxRows == 2

\* the type property of a node: missing, a number, or a string
NoField == [typeOf |-> "undefined", value |-> ""]
NumberValue == [typeOf |-> "number", value |-> "1"]
Str(s) == [typeOf |-> "string", value |-> s]

\* a missing type, a type that is no string, an empty and an unexpected tag
TypeDeviations(wrongTag) == {NoField, NumberValue, Str(""), Str(wrongTag)}

\* the content property of a node: an array, or anything else (missing too)
NotArray == [isArray |-> FALSE, items |-> << >>]
ArrayOf(items) == [isArray |-> TRUE, items |-> items]

\* a JSON value where a node is expected: null, a string, or an object
NullValue == [typeOf |-> "object", falsy |-> TRUE, type |-> NoField, content |-> NotArray]
StringValue == [typeOf |-> "string", falsy |-> FALSE, type |-> NoField, content |-> NotArray]
ObjectValue(type, content) ==
    [typeOf |-> "object", falsy |-> FALSE, type |-> type, content |-> content]

\* what a row may hold: the validator never looks at the items
RowContents == { << "column" >>, << "paragraph" >>, << "null" >> }

\* a well-formed document of n slides with m rows each
SkeletonRow == ObjectValue(Str("row"), ArrayOf(<< "column" >>))
SkeletonSlide(m) == ObjectValue(Str("slide"), ArrayOf([j \in 1 .. m |-> SkeletonRow]))
SkeletonDoc(n, m) == ObjectValue(Str("doc"), ArrayOf([i \in 1 .. n |-> SkeletonSlide(m)]))
Skeletons == { SkeletonDoc(n, m) : n \in 1 .. MaxDocSlides, m \in 1 .. MaxRows }

\* the ways one node of a document differs from the well-formed one;
\* wrongTag is a tag the validator does not expect at the depth of the node
NodeDeviations(node, wrongTag) ==
    IF node.typeOf = "object" /\ ~node.falsy
    THEN ({NullValue, StringValue}
          \cup { [node EXCEPT !.type = t] : t \in TypeDeviations(wrongTag) }
          \cup { [node EXCEPT !.content = NotArray],
                 [node EXCEPT !.content = ArrayOf(<< >>)] }) \ {node}
    ELSE {}

RowDeviations(row) ==
    NodeDeviations(row, "column")
    \cup (IF row.typeOf = "object" /\ ~row.falsy
          THEN { [row EXCEPT !.content = ArrayOf(c)] : c \in RowContents } \ {row}
          ELSE {})

SlideDeviations(slide) ==
    NodeDeviations(slide, "row")
    \cup UNION { { [slide EXCEPT !.content.items[j] = r] :
                       r \in RowDeviations(slide.content.items[j]) } :
                 j \in 1 .. Len(slide.content.items) }

DocDeviations(doc) ==
    NodeDeviations(doc, "slide")
    \cup UNION { { [doc EXCEPT !.content.items[i] = sl] :
                       sl \in SlideDeviations(doc.content.items[i]) } :
                 i \in 1 .. Len(doc.content.items) }

\* a document and the documents one deviation away from it
WithinOne(doc) == {doc} \cup DocDeviations(doc)

\* ------------------------------------------------ validation: messages
\* a message is the sequence of the pieces its template concatenates
PathRoot == << "doc" >>

\* variant: forEach counts from one
ForEachIndex_oneBased(k) == k

\* the index forEach passes for the k-th element of an array
ForEachIndex(k) == k - 1

\* `${path}.content[${index}]`
ChildPath(path, index) == path \o << ".content[", ToString(index), "]" >>

\* `${path}: ...`
Prefixed(path, reason) == path \o << ": " >> \o reason

\* the messages of validateDoc that carry no path
Unprefixed(reason) == reason

\* variant: the two tags change places
Mismatch_swapped(intro, tag, got) == << intro, got, "', got '", tag, "'" >>

\* `Expected '${tag}', got '${type}'`
Mismatch(intro, tag, got) == << intro, tag, "', got '", got, "'" >>

\* throw new ValidationError(message): the error has this name and message
Thrown(message) == [ok |-> FALSE, name |-> "ValidationError", message |-> message]
Returned == [ok |-> TRUE, name |-> "", message |-> << >>]

\* variant: the callback of every element runs and the last error is the one kept
ForEach_last(results) ==
    IF \E k \in DOMAIN results : ~results[k].ok
    THEN results[CHOOSE k \in DOMAIN results :
                     /\ ~results[k].ok
                     /\ \A j \in DOMAIN results : j > k => results[j].ok]
    ELSE Returned

\* results[k] is what the callback does on the k-th element; forEach stops at
\* the first element whose callback throws
ForEach(results) ==
    IF \E k \in DOMAIN results : ~results[k].ok
    THEN results[CHOOSE k \in DOMAIN results :
                     /\ ~results[k].ok
                     /\ \A j \in DOMAIN results : j < k => results[j].ok]
    ELSE Returned

\* -------------------------------------------------- validation: the validator
\* !node.type
TypeIsFalsy(t) == t.typeOf = "undefined" \/ (t.typeOf = "string" /\ t.value = "")

validateNodeStructure(node, path) ==
    IF node.falsy \/ node.typeOf # "object"
    THEN Thrown(Prefixed(path, << "Node must be an object" >>))
    ELSE IF TypeIsFalsy(node.type) \/ node.type.typeOf # "string"
    THEN Thrown(Prefixed(path, << "Node must have a 'type' string property" >>))
    ELSE Returned

\* variant: the items of a row must be objects
validateRow_deep(row, path) ==
    LET structure == validateNodeStructure(row, path)
    IN  IF ~structure.ok THEN structure
        ELSE IF row.type.value # "row"
        THEN Thrown(Prefixed(path, Mismatch("Expected '", "row", row.type.value)))
        ELSE IF ~row.content.isArray
        THEN Thrown(Prefixed(path, << "Row must have content array" >>))
        ELSE IF Len(row.content.items) = 0
        THEN Thrown(Prefixed(path, << "Row must have at least one column or content block" >>))
        ELSE IF \E k \in 1 .. Len(row.content.items) : row.content.items[k] = "null"
        THEN Thrown(Prefixed(path, << "Node must be an object" >>))
        ELSE Returned

validateRow(row, path) ==
    LET structure == validateNodeStructure(row, path)
    IN  IF ~structure.ok THEN structure
        ELSE IF row.type.value # "row"
        THEN Thrown(Prefixed(path, Mismatch("Expected '", "row", row.type.value)))
        ELSE IF ~row.content.isArray
        THEN Thrown(Prefixed(path, << "Row must have content array" >>))
        ELSE IF Len(row.content.items) = 0
        THEN Thrown(Prefixed(path, << "Row must have at least one column or content block" >>))
        ELSE Returned

validateSlide(slide, path) ==
    LET structure == validateNodeStructure(slide, path)
    IN  IF ~structure.ok THEN structure
        ELSE IF slide.type.value # "slide"
        THEN Thrown(Prefixed(path, Mismatch("Expected '", "slide", slide.type.value)))
        ELSE IF ~slide.content.isArray
        THEN Thrown(Prefixed(path, << "Slide must have content array" >>))
        ELSE IF Len(slide.content.items) = 0
        THEN Thrown(Prefixed(path, << "Slide must have at least one row" >>))
        ELSE ForEach([k \in 1 .. Len(slide.content.items) |->
                         validateRow(slide.content.items[k],
                                     ChildPath(path, ForEachIndex(k)))])

validateDoc(doc) ==
    LET structure == validateNodeStructure(doc, PathRoot)
    IN  IF ~structure.ok THEN structure
        ELSE IF doc.type.value # "doc"
        THEN Thrown(Unprefixed(Mismatch("Root node must be type '", "doc", doc.type.value)))
        ELSE IF ~doc.content.isArray
        THEN Thrown(Unprefixed(<< "Doc must have content array" >>))
        ELSE IF Len(doc.content.items) = 0
        THEN Thrown(Unprefixed(<< "Doc must have at least one slide" >>))
        ELSE ForEach([k \in 1 .. Len(doc.content.items) |->
                         validateSlide(doc.content.items[k],
                                       ChildPath(PathRoot, ForEachIndex(k)))])

\* error instanceof ValidationError
IsValidationError(result) == result.name = "ValidationError"

\* try { validateDoc(content); return true } catch: a ValidationError is thrown
\* again, anything else is wrapped into one
validateContent(content) ==
    LET tried == validateDoc(content)
    IN  IF tried.ok THEN Returned
        ELSE IF IsValidationError(tried) THEN tried
        ELSE Thrown(<< "Validation failed: " >> \o tried.message)

\* variant: the instanceof test of the catch clause never succeeds
safeValidateContent_unknown(content) ==
    LET strict == validateContent(content)
    IN  IF strict.ok THEN [valid |-> TRUE, error |-> << >>]
        ELSE [valid |-> FALSE, error |-> << "Unknown validation error" >>]

\* try { validateContent(content); return {valid: true} } catch: the message
\* of a ValidationError is returned
safeValidateContent(content) ==
    LET strict == validateContent(content)
    IN  IF strict.ok THEN [valid |-> TRUE, error |-> << >>]
        ELSE IF IsValidationError(strict) THEN [valid |-> FALSE, error |-> strict.message]
        ELSE [valid |-> FALSE, error |-> << "Unknown validation error" >>]

NotValidated ==
    [op |-> "none", threw |-> FALSE, message |-> << >>, valid |-> FALSE, error |-> << >>]

\* validateContent(candidate): returns true or throws a ValidationError
ValidateContent ==
    /\ verdict' = LET strict == validateContent(candidate)
                  IN  [op |-> "validateContent", threw |-> ~strict.ok,
                       message |-> strict.message, valid |-> strict.ok, error |-> << >>]
    /\ UNCHANGED candidate
    /\ UNCHANGED <<navVars, layoutVars, treeVars, editorVars, hookVars>>

\* safeValidateContent(candidate): returns {valid, error}
SafeValidateContent ==
    /\ verdict' = LET safe == safeValidateContent(candidate)
                  IN  [op |-> "safeValidateContent", threw |-> FALSE,
                       message |-> << >>, valid |-> safe.valid, error |-> safe.error]
    /\ UNCHANGED candidate
    /\ UNCHANGED <<navVars, layoutVars, treeVars, editorVars, hookVars>>

\* ------------------------------------------------ SlideEditor.tsx: props
\* setTimeout callbacks waiting at once
MaxPending == 3

Modes == {"edit", "present", "preview"}

\* contents the validator rejects
EmptyDoc == ObjectValue(Str("doc"), ArrayOf(<< >>))

\* a content the validator accepts and schema.nodeFromJSON throws on: a row
\* that holds a null
UnrenderableDoc ==
    ObjectValue(Str("doc"),
                ArrayOf(<< ObjectValue(Str("slide"),
                                       ArrayOf(<< ObjectValue(Str("row"),
                                                              ArrayOf(<< "null" >>)) >>)) >>))

EditorContents ==
    { SkeletonDoc(n, 1) : n \in 1 .. MaxSlides } \cup {EmptyDoc, NullValue, UnrenderableDoc}

\* the props the effects read; onSlideChange and onError are optional callbacks
Props ==
    [content : EditorContents, editorMode : Modes, readOnly : BOOLEAN,
     currentSlide : 0 .. MaxSlides, onSlideChange : BOOLEAN, onError : BOOLEAN]

PropNames ==
    << "content", "editorMode", "readOnly", "currentSlide", "onSlideChange", "onError" >>

\* the values of one prop
PropValues(name) ==
    IF name = "content" THEN EditorContents
    ELSE IF name = "editorMode" THEN Modes
    ELSE IF name = "currentSlide" THEN 0 .. MaxSlides
    ELSE BOOLEAN

\* the dependencies of an effect differ between two renders
DepsChanged(old, new, deps) == \E d \in deps : old[d] # new[d]

\* schema.nodeFromJSON(content) returns a document: no row holds a null
Renderable(content) ==
    \A i \in 1 .. Len(content.content.items) :
        LET slide == content.content.items[i]
        IN  \A j \in 1 .. Len(slide.content.items) :
                LET row == slide.content.items[j]
                IN  \A k \in 1 .. Len(row.content.items) : row.content.items[k] # "null"

\* the slide elements new EditorView renders for a content
RenderSlides(content) == [k \in 1 .. Len(content.content.items) |-> FreshSlide]

\* ------------------------------------------------ SlideEditor.tsx: effects
\* what one commit has done so far to the component, and the editorMode of
\* the render before it; the effects of a commit run in the order the
\* component declares them
NoCommit ==
    [kind |-> "none", prevMode |-> "none",
     validated |-> "skipped", created |-> FALSE, scheduled |-> 0,
     swept |-> FALSE, errors |-> << >>, warned |-> << >>, notified |-> << >>]

Current ==
    [viewRef |-> viewRef, cleanup |-> cleanup, rendered |-> rendered,
     unswept |-> unswept, pending |-> pending, keydown |-> keydown, log |-> NoCommit]

\* the cleanup of the editor effect: view.destroy() takes the rendered tree
\* out of the editor element; viewRef.current keeps the destroyed view
EditorCleanup(st) ==
    IF st.cleanup
    THEN [st EXCEPT !.viewRef = "destroyed", !.cleanup = FALSE,
                    !.rendered = << >>, !.unswept = FALSE]
    ELSE st

\* setTimeout(() => { if (editorRef.current) applyAllLayouts(editorRef.current) }, 0)
Schedule(st) ==
    [st EXCEPT !.pending = @ + 1, !.log.scheduled = @ + 1]

\* the body of the editor effect
EditorEffect(st, p, el) ==
    IF ~el THEN st
    ELSE LET strict == validateContent(p.content)
         IN  IF ~strict.ok
             THEN [st EXCEPT
                      !.log.validated = "ValidationError",
                      !.log.errors =
                          @ \o << [to |-> "console.error", name |-> strict.name,
                                   message |-> strict.message] >>
                            \o (IF p.onError
                                THEN << [to |-> "onError", name |-> strict.name,
                                         message |-> strict.message] >>
                                ELSE << >>)]
             ELSE IF ~Renderable(p.content)
             THEN [st EXCEPT
                      !.log.validated = "returned",
                      !.log.errors =
                          @ \o << [to |-> IF p.onError THEN "onError" ELSE "console.error",
                                   name |-> "Error", message |-> << "nodeFromJSON" >>] >>]
             ELSE Schedule([st EXCEPT
                      !.log.validated = "returned",
                      !.log.created = TRUE,
                      !.viewRef = "alive",
                      !.cleanup = TRUE,
                      !.rendered = RenderSlides(p.content),
                      !.unswept = TRUE])

\* the layout effect
LayoutEffect(st, el) ==
    IF ~el \/ st.viewRef = "null" THEN st ELSE Schedule(st)

\* variant: the current slide is shown alone in every mode
VisibilityEffect_everyMode(st, p, el) ==
    IF ~el THEN st
    ELSE [st EXCEPT !.rendered = showSlide(@, p.currentSlide),
                    !.log.warned = @ \o showSlideWarnings(st.rendered, p.currentSlide)]

\* the visibility effect
VisibilityEffect(st, p, el) ==
    IF ~el THEN st
    ELSE IF p.editorMode = "present"
    THEN [st EXCEPT !.rendered = showSlide(@, p.currentSlide),
                    !.log.warned = @ \o showSlideWarnings(st.rendered, p.currentSlide)]
    ELSE [st EXCEPT !.rendered = showAllSlides(@)]

\* the keyboard effect: its cleanup removes the listener, its body adds it
KeyboardEffect(st, p, el) ==
    [st EXCEPT !.keydown = (p.editorMode = "present" /\ el)]

\* the effects of one commit: the cleanups of the effects that run again,
\* then their bodies; old = new and all = TRUE for the first render
RunEffects(st, old, new, all, el) ==
    LET runEditor == all \/ DepsChanged(old, new, {"content", "editorMode", "readOnly"})
        runLayout == all \/ DepsChanged(old, new, {"content"})
        runVisibility == all \/ DepsChanged(old, new, {"editorMode", "currentSlide"})
        runKeyboard == all \/ DepsChanged(old, new, {"editorMode", "onSlideChange"})
        s0 == IF runEditor THEN EditorCleanup(st) ELSE st
        s1 == IF runEditor THEN EditorEffect(s0, new, el) ELSE s0
        s2 == IF runLayout THEN LayoutEffect(s1, el) ELSE s1
        s3 == IF runVisibility THEN VisibilityEffect(s2, new, el) ELSE s2
    IN  IF runKeyboard THEN KeyboardEffect(s3, new, el) ELSE s3

Install(st, kind) ==
    /\ viewRef' = st.viewRef
    /\ cleanup' = st.cleanup
    /\ rendered' = st.rendered
    /\ unswept' = st.unswept
    /\ pending' = st.pending
    /\ keydown' = st.keydown
    /\ commit' = [st.log EXCEPT
                     !.kind = kind,
                     !.prevMode = IF kind = "update" THEN props.editorMode ELSE "none"]

\* ------------------------------------------------ SlideEditor.tsx: steps
\* the first render: the editor element is attached, then every effect runs
Mount ==
    /\ phase = "initial"
    /\ phase' = "mounted"
    /\ editorRef' = TRUE
    /\ Install(RunEffects(Current, props, props, TRUE, TRUE), "mount")
    /\ UNCHANGED props
    /\ UNCHANGED <<navVars, layoutVars, treeVars, validVars, hookVars>>

\* the host renders the component again with other props; the renders tried
\* change one prop or two
Update ==
    /\ phase = "mounted"
    /\ pending + 2 <= MaxPending
    /\ \E i \in 1 .. Len(PropNames) :
          \E j \in i .. Len(PropNames) :
              \E x \in PropValues(PropNames[i]) \ {props[PropNames[i]]} :
                  \E y \in PropValues(PropNames[j]) \ {props[PropNames[j]]} :
                      LET new == [props EXCEPT ![PropNames[i]] = x, ![PropNames[j]] = y]
                      IN  /\ i = j => x = y
                          /\ props' = new
                          /\ Install(RunEffects(Current, props, new, FALSE, editorRef),
                                     "update")
    /\ UNCHANGED <<phase, editorRef>>
    /\ UNCHANGED <<navVars, layoutVars, treeVars, validVars, hookVars>>

\* the component is removed: the cleanups run and the element is detached
Unmount ==
    /\ phase = "mounted"
    /\ phase' = "unmounted"
    /\ editorRef' = FALSE
    /\ Install([EditorCleanup(Current) EXCEPT !.keydown = FALSE], "unmount")
    /\ UNCHANGED props
    /\ UNCHANGED <<navVars, layoutVars, treeVars, validVars, hookVars>>

\* a setTimeout callback runs: the sweep, if the editor element is still there
TimerFires ==
    /\ pending > 0
    /\ pending' = pending - 1
    /\ unswept' = (IF editorRef THEN FALSE ELSE unswept)
    /\ commit' = [NoCommit EXCEPT !.kind = "timer", !.swept = editorRef]
    /\ UNCHANGED <<props, phase, editorRef, viewRef, cleanup, rendered, keydown>>
    /\ UNCHANGED <<navVars, layoutVars, treeVars, validVars, hookVars>>

\* one key of each branch of handleKeyDown: ArrowDown and the space bar do what
\* ArrowRight does, ArrowUp what ArrowLeft does
Keys == {"ArrowRight", "ArrowLeft", "Home", "End"}

\* handleKeyDown(e) while the listener is registered
KeyDown ==
    /\ keydown
    /\ editorRef
    /\ \E key \in Keys :
          LET currentIndex == getCurrentSlideIndex(rendered)
              target == IF key = "ArrowRight" THEN currentIndex + 1
                        ELSE IF key = "ArrowLeft" THEN currentIndex - 1
                        ELSE IF key = "Home" THEN 0
                        ELSE Len(rendered) - 1
              moves == IF key = "ArrowRight" THEN canGoNext(currentIndex, getSlideCount(rendered))
                       ELSE IF key = "ArrowLeft" THEN canGoPrev(currentIndex)
                       ELSE TRUE
          IN  /\ rendered' = (IF moves THEN showSlide(rendered, target) ELSE rendered)
              /\ commit' = [NoCommit EXCEPT
                               !.kind = key,
                               !.warned = IF moves THEN showSlideWarnings(rendered, target)
                                          ELSE << >>,
                               !.notified = IF moves
                                            THEN Notify(props.onSlideChange, target,
                                                        showSlide(rendered, target))
                                            ELSE << >>]
    /\ UNCHANGED <<props, phase, editorRef, viewRef, cleanup, unswept, pending, keydown>>
    /\ UNCHANGED <<navVars, layoutVars, treeVars, validVars, hookVars>>

\* dispatchTransaction: an edit of the user changes the rendered tree in
\* place (view.updateState); the view is editable in edit mode unless readOnly
Transaction ==
    /\ viewRef = "alive"
    /\ props.editorMode = "edit" /\ ~props.readOnly
    /\ unswept' = TRUE
    /\ commit' = [NoCommit EXCEPT !.kind = "transaction"]
    /\ UNCHANGED <<props, phase, editorRef, viewRef, cleanup, rendered, pending, keydown>>
    /\ UNCHANGED <<navVars, layoutVars, treeVars, validVars, hookVars>>

\* ------------------------------------------------ useSlideEditor.ts
NoHook ==
    [phase |-> "initial", attached |-> FALSE, timer |-> FALSE, editor |-> FALSE,
     totalSlides |-> 0, onCreate |-> FALSE, onDestroy |-> FALSE, calls |-> << >>]

\* the first render of the hook: the initialization effect sets its timer
HookMount ==
    /\ hook.phase = "initial"
    /\ hook' = [hook EXCEPT !.phase = "mounted", !.timer = TRUE]
    /\ UNCHANGED <<navVars, layoutVars, treeVars, validVars, editorVars>>

\* the timer callback: if (ref.current) { setEditor(ref.current);
\* onCreateRef.current?.(ref.current); updateState() }
HookTimer ==
    /\ hook.timer
    /\ \E n \in 0 .. MaxSlides :
          hook' = [hook EXCEPT
                      !.timer = FALSE,
                      !.editor = (@ \/ hook.attached),
                      !.totalSlides = IF hook.attached THEN n ELSE @,
                      !.calls = IF hook.attached /\ hook.onCreate
                                THEN Append(@, "onCreate") ELSE @]
    /\ UNCHANGED <<navVars, layoutVars, treeVars, validVars, editorVars>>

\* the cleanup of the initialization effect: clearTimeout(timer);
\* onDestroyRef.current?.()
HookUnmount ==
    /\ hook.phase = "mounted"
    /\ hook' = [hook EXCEPT
                   !.phase = "unmounted",
                   !.timer = FALSE,
                   !.attached = FALSE,
                   !.calls = IF hook.onDestroy THEN Append(@, "onDestroy") ELSE @]
    /\ UNCHANGED <<navVars, layoutVars, treeVars, validVars, editorVars>>

\* a render with other callbacks: the effect of lines 35-38 stores them
HookCallbacks ==
    /\ hook.phase = "mounted"
    /\ \E c, d \in BOOLEAN :
          /\ <<c, d>> # <<hook.onCreate, hook.onDestroy>>
          /\ hook' = [hook EXCEPT !.onCreate = c, !.onDestroy = d]
    /\ UNCHANGED <<navVars, layoutVars, treeVars, validVars, editorVars>>

\* a render with another options.content: updateState() reads the editor
\* through the ref, if it is attached
HookContent ==
    /\ hook.phase = "mounted"
    /\ \E n \in 0 .. MaxSlides :
          hook' = [hook EXCEPT !.totalSlides = IF hook.attached THEN n ELSE @]
    /\ UNCHANGED <<navVars, layoutVars, treeVars, validVars, editorVars>>

\* the host starts or stops rendering <SlideEditor ref={ref}>
HookRef ==
    /\ hook.phase = "mounted"
    /\ hook' = [hook EXCEPT !.attached = ~@]
    /\ UNCHANGED <<navVars, layoutVars, treeVars, validVars, editorVars>>

\* ------------------------------------------------------------ specification
InitEditorIdle ==
    /\ props = [content |-> NullValue, editorMode |-> "edit", readOnly |-> FALSE,
                currentSlide |-> 0, onSlideChange |-> FALSE, onError |-> FALSE]
    /\ phase = "initial"
    /\ editorRef = FALSE
    /\ viewRef = "null"
    /\ cleanup = FALSE
    /\ rendered = << >>
    /\ unswept = FALSE
    /\ pending = 0
    /\ keydown = FALSE
    /\ commit = NoCommit

InitHookIdle == hook = NoHook

InitValidIdle ==
    /\ candidate = NullValue
    /\ verdict = NotValidated

InitTreeIdle ==
    /\ attached = [e \in Elements |-> TRUE]
    /\ dataLayout = [r \in RowElements |-> Absent]
    /\ flex = [e \in Elements |-> NoFlex]
    /\ resolved = NotResolved

InitLayoutIdle ==
    /\ layout = << >>
    /\ columnCount = 0
    /\ parsed = NotParsed

InitNav ==
    /\ \E n \in 0 .. MaxSlides : slides = [k \in 1 .. n |-> FreshSlide]
    /\ call = NoCall
    /\ everNotified = {}
    /\ InitLayoutIdle
    /\ InitTreeIdle
    /\ InitValidIdle
    /\ InitEditorIdle
    /\ InitHookIdle

NextNav ==
    \/ ShowSlide
    \/ ShowAllSlides
    \/ GetCurrentSlideIndex
    \/ NextSlide
    \/ PrevSlide
    \/ GoToSlide
    \/ KeyHome
    \/ KeyEnd

SpecNav == InitNav /\ [][NextNav]_vars

InitNavIdle ==
    /\ slides = << >>
    /\ call = NoCall
    /\ everNotified = {}

InitLayout ==
    /\ (layout \in ShortLayouts \/ layout \in KeywordLayouts \/ layout \in LongLayouts)
    /\ columnCount \in 0 .. MaxColumns
    /\ parsed = NotParsed
    /\ InitNavIdle
    /\ InitTreeIdle
    /\ InitValidIdle
    /\ InitEditorIdle
    /\ InitHookIdle

NextLayout == ParseLayout

SpecLayout == InitLayout /\ [][NextLayout]_vars

\* the tree as the editing engine renders it: every element present, the rows
\* with any of the layouts, no inline flex
InitTree ==
    /\ attached = [e \in Elements |-> TRUE]
    /\ dataLayout \in [RowElements -> RowLayouts]
    /\ flex = [e \in Elements |-> NoFlex]
    /\ resolved = NotResolved
    /\ InitNavIdle
    /\ InitLayoutIdle
    /\ InitValidIdle
    /\ InitEditorIdle
    /\ InitHookIdle

NextTree ==
    \/ ApplyLayoutToRow
    \/ ApplyAllLayouts
    \/ SetDataLayout
    \/ InsertColumn
    \/ RemoveColumn

SpecTree == InitTree /\ [][NextTree]_vars

\* the rendered tree as the editor component uses it: the engine mutates it
\* and the component calls applyAllLayouts only
NextSweep ==
    \/ ApplyAllLayouts
    \/ SetDataLayout
    \/ InsertColumn
    \/ RemoveColumn

SpecSweep == InitTree /\ [][NextSweep]_vars

\* the contents a host hands over: well-formed documents and the documents
\* one or two deviations away from them
InitValidate ==
    /\ \E skeleton \in Skeletons :
          \E once \in WithinOne(skeleton) : candidate \in WithinOne(once)
    /\ verdict = NotValidated
    /\ InitNavIdle
    /\ InitLayoutIdle
    /\ InitTreeIdle
    /\ InitEditorIdle
    /\ InitHookIdle

NextValidate ==
    \/ ValidateContent
    \/ SafeValidateContent

SpecValidate == InitValidate /\ [][NextValidate]_vars

\* the component before its first render, with the props of that render
InitEditor ==
    /\ props \in Props
    /\ phase = "initial"
    /\ editorRef = FALSE
    /\ viewRef = "null"
    /\ cleanup = FALSE
    /\ rendered = << >>
    /\ unswept = FALSE
    /\ pending = 0
    /\ keydown = FALSE
    /\ commit = NoCommit
    /\ InitNavIdle
    /\ InitLayoutIdle
    /\ InitTreeIdle
    /\ InitValidIdle
    /\ InitHookIdle

NextEditor ==
    \/ Mount
    \/ Update
    \/ Unmount
    \/ TimerFires
    \/ KeyDown
    \/ Transaction

SpecEditor == InitEditor /\ [][NextEditor]_vars

\* the hook before its first render, with or without the editor attached to
\* its ref and with the callbacks of the options
InitHook ==
    /\ \E a, c, d \in BOOLEAN :
          hook = [NoHook EXCEPT !.attached = a, !.onCreate = c, !.onDestroy = d]
    /\ InitNavIdle
    /\ InitLayoutIdle
    /\ InitTreeIdle
    /\ InitValidIdle
    /\ InitEditorIdle

NextHook ==
    \/ HookMount
    \/ HookTimer
    \/ HookUnmount
    \/ HookCallbacks
    \/ HookContent
    \/ HookRef

SpecHook == InitHook /\ [][NextHook]_vars

\* ------------------------------------------------ properties of navigation
\* slide i is the single active, visible slide; all others are inactive and hidden
OnlyShown(ss, i) ==
    \A k \in 1 .. Len(ss) :
        IF k - 1 = i
        THEN MarkedActive(ss[k]) /\ Visible(ss[k])
        ELSE ss[k].active = "false" /\ ~Visible(ss[k])

HasActive(ss) == \E k \in 1 .. Len(ss) : MarkedActive(ss[k])

InRange(ss, i) == 0 <= i /\ i < Len(ss)

\* C1: after showSlide(i) with 0 <= i < n on a collection of n >= 1 slides,
\* slide i is active and visible and every other slide is inactive and hidden,
\* whatever the slides were before.
C1_ShowOnlyMarksExactlyOne ==
    (call.op = "showSlide" /\ Len(call.pre) >= 1 /\ InRange(call.pre, call.arg))
        => (Len(slides) = Len(call.pre) /\ OnlyShown(slides, call.arg))

\* C1 witness: showSlide(i) acted on a collection where another slide was the
\* active one.
C1_Witness ==
    /\ call.op = "showSlide"
    /\ InRange(call.pre, call.arg)
    /\ HasActive(call.pre)
    /\ getCurrentSlideIndex(call.pre) # call.arg
    /\ OnlyShown(slides, call.arg)

\* C2: showSlide(index) with index < 0 or index >= count emits one diagnostic
\* and leaves the marker and the visibility of every slide as they were.
C2_OutOfRangeIsNoOp ==
    (call.op = "showSlide" /\ (call.arg < 0 \/ call.arg >= Len(call.pre)))
        => (slides = call.pre /\ Len(call.warned) = 1 /\ call.warned[1].index = call.arg)

\* C2 witness: showSlide(count) was rejected while a slide was shown alone.
C2_Witness ==
    /\ call.op = "showSlide"
    /\ call.arg = Len(call.pre)
    /\ HasActive(call.pre)
    /\ Len(call.warned) = 1

\* C3: nextSlide when the current index is the last slide (or the collection is
\* empty) and prevSlide when the current index is 0 change no slide and notify
\* nobody.
C3_NoWraparound ==
    /\ (call.op = "nextSlide" /\ getCurrentSlideIndex(call.pre) >= Len(call.pre) - 1)
          => (slides = call.pre /\ call.notified = << >>)
    /\ (call.op = "prevSlide" /\ getCurrentSlideIndex(call.pre) = 0)
          => (slides = call.pre /\ call.notified = << >>)

\* C3 witness: nextSlide was called with a callback while the last of several
\* slides was the active one.
C3_Witness ==
    /\ call.op = "nextSlide"
    /\ call.cb
    /\ Len(call.pre) >= 2
    /\ HasActive(call.pre)
    /\ getCurrentSlideIndex(call.pre) = Len(call.pre) - 1

\* C4: goToSlide with an out-of-range index changes no slide and does not
\* invoke the callback, and every index ever passed to the callback is a valid
\* slide index.
C4_GoToNotifiesOnlyOnSuccess ==
    /\ (call.op = "goToSlide" /\ ~InRange(call.pre, call.arg))
          => (slides = call.pre /\ call.notified = << >>)
    /\ \A i \in everNotified : InRange(slides, i)

\* C5: nextSlide with slide i active and i < count-1 makes i+1 the only active
\* slide and then invokes the callback exactly once with i+1; prevSlide with
\* 0 < i does the same with i-1; the notified index is the current index the
\* callback reads.
C5_StepNotifiesNewIndex ==
    LET i == getCurrentSlideIndex(call.pre)
        Moved(j) ==
            /\ OnlyShown(slides, j)
            /\ call.cb => /\ Len(call.notified) = 1
                          /\ call.notified[1].index = j
                          /\ call.notified[1].current = j
            /\ getCurrentSlideIndex(slides) = j
    IN  /\ (call.op = "nextSlide" /\ HasActive(call.pre) /\ i < Len(call.pre) - 1)
              => Moved(i + 1)
        /\ (call.op = "prevSlide" /\ HasActive(call.pre) /\ 0 < i)
              => Moved(i - 1)

\* C5 witness: prevSlide with a callback moved the marker from slide 2 to slide 1.
C5_Witness ==
    /\ call.op = "prevSlide"
    /\ call.cb
    /\ HasActive(call.pre)
    /\ getCurrentSlideIndex(call.pre) = 2
    /\ call.notified = << [index |-> 1, current |-> 1] >>

\* C6: showSlide(i) with a valid i followed by getCurrentSlideIndex() returns i;
\* showAllSlides() followed by getCurrentSlideIndex() returns 0.
C6_WriteReadRoundTrip ==
    /\ (call.op = "showSlide" /\ InRange(call.pre, call.arg))
          => getCurrentSlideIndex(slides) = call.arg
    /\ call.op = "showAllSlides" => getCurrentSlideIndex(slides) = 0

\* C6 witness: showAllSlides acted while slide 2 was the active one.
C6_Witness ==
    /\ call.op = "showAllSlides"
    /\ HasActive(call.pre)
    /\ getCurrentSlideIndex(call.pre) = 2
    /\ getCurrentSlideIndex(slides) = 0

\* C7: in every reachable state either no slide is marked active and all slides
\* are visible, or exactly one slide is marked active and it is the only
\* visible one.
C7_AtMostOneActive ==
    LET active == { k \in 1 .. Len(slides) : MarkedActive(slides[k]) }
        visible == { k \in 1 .. Len(slides) : Visible(slides[k]) }
    IN  \/ active = {} /\ visible = 1 .. Len(slides)
        \/ Cardinality(active) = 1 /\ visible = active

\* C7 witness: an out-of-range goToSlide was called on several slides of which
\* one stays the single active one.
C7_Witness ==
    /\ Len(slides) >= 2
    /\ HasActive(slides)
    /\ call.op = "goToSlide"
    /\ ~InRange(call.pre, call.arg)

\* ------------------------------------------------ properties of parseLayout
IsNonNegativeInteger(r) == r.finite /\ r.value \in Nat

\* non-negative as a JavaScript number: a natural number or Infinity
IsNonNegativeNumber(r) == r.finite => r.value \in Nat

RECURSIVE Pow10(_)
Pow10(e) == IF e = 0 THEN 1 ELSE 10 * Pow10(e - 1)

\* the integer a digit string denotes: the sum of its digits times their powers of ten
RECURSIVE DenotedFrom(_, _)
DenotedFrom(seg, k) ==
    IF k > Len(seg) THEN 0
    ELSE DigitValue(seg[k]) * Pow10(Len(seg) - k) + DenotedFrom(seg, k + 1)

Denoted(seg) == DenotedFrom(seg, 1)

OnlyZeros(seg) == \A k \in 1 .. Len(seg) : seg[k] = "0"

\* the layout has the digits-and-single-hyphens format and as many segments as
\* there are siblings
Accepted(s, n) ==
    /\ s # Absent
    /\ Len(s) >= 1
    /\ \A k \in 1 .. Len(s) : s[k] \in Digits \cup {"-"}
    /\ s[1] # "-" /\ s[Len(s)] # "-"
    /\ \A k \in 1 .. (Len(s) - 1) : ~(s[k] = "-" /\ s[k + 1] = "-")
    /\ Cardinality({ k \in 1 .. Len(s) : s[k] = "-" }) + 1 = n

\* C8: for every layout string and every columnCount >= 1, parseLayout returns
\* a vector of exactly columnCount non-negative integers.
C8_ParseIsTotal ==
    (parsed.done /\ columnCount >= 1)
        => /\ Len(parsed.ratios) = columnCount
           /\ \A k \in 1 .. Len(parsed.ratios) : IsNonNegativeInteger(parsed.ratios[k])

C10_AcceptedIsVerbatim ==
    (parsed.done /\ Accepted(layout, columnCount))
        => /\ parsed.warned = << >>
           /\ Len(parsed.ratios) = columnCount
           /\ \A k \in 1 .. columnCount :
                 /\ parsed.ratios[k].finite
                 /\ parsed.ratios[k].value = Denoted(Split(layout)[k])

\* n copies of the number 1
IsOnes(v, n) == Len(v) = n /\ \A k \in 1 .. Len(v) : v[k] = JSNumber(1)

\* digits and single hyphens, no leading or trailing hyphen, no empty segment
WellFormed(s) ==
    /\ s # Absent
    /\ Len(s) >= 1
    /\ \A k \in 1 .. Len(s) : s[k] \in Digits \cup {"-"}
    /\ s[1] # "-" /\ s[Len(s)] # "-"
    /\ \A k \in 1 .. (Len(s) - 1) : ~(s[k] = "-" /\ s[k + 1] = "-")

SegmentCount(s) == Cardinality({ k \in 1 .. Len(s) : s[k] = "-" }) + 1

\* C11: for an empty or absent layout and every columnCount >= 1, parseLayout
\* returns columnCount copies of 1 and emits no diagnostic.
C11_EmptyIsEqualDistribution ==
    (parsed.done /\ columnCount >= 1 /\ (layout = << >> \/ layout = Absent))
        => (IsOnes(parsed.ratios, columnCount) /\ parsed.warned = << >>)

\* C11 witness: the empty string was parsed for three columns.
C11_Witness ==
    /\ parsed.done
    /\ layout = << >>
    /\ columnCount = 3
    /\ Len(parsed.ratios) = 3

C13_CountMismatchFallsBack ==
    (parsed.done /\ WellFormed(layout) /\ SegmentCount(layout) # columnCount)
        => /\ IsOnes(parsed.ratios, columnCount)
           /\ Len(parsed.warned) = 1
           /\ parsed.warned[1].kind = "count"
           /\ parsed.warned[1].layout = layout
           /\ parsed.warned[1].expects = SegmentCount(layout)
           /\ parsed.warned[1].found = columnCount

\* C13 witness: a layout of three segments other than 1 was parsed for two
\* columns.
C13_Witness ==
    /\ parsed.done
    /\ columnCount = 2
    /\ layout = << "2", "-", "0", "-", "2" >>
    /\ parsed.ratios = << JSNumber(1), JSNumber(1) >>

\* C14: parseLayout("auto", n) returns n copies of 1 and emits no diagnostic.
C14_AutoIsSilentDefault ==
    (parsed.done /\ columnCount >= 1 /\ layout = AutoLayout)
        => (IsOnes(parsed.ratios, columnCount) /\ parsed.warned = << >>)

\* ------------------------------------------------ properties of layout resolution
\* the grow weight an element is laid out with: its inline flex, or the style
\* sheet's where it has none
EffectiveGrow(f) == IF f.set THEN f.grow ELSE JSNumber(CssDefaultGrow)

C16_ResolveTouchesOnlyChildren ==
    [][resolved'.op = "applyLayoutToRow" =>
          \A e \in Elements :
              ~IsIn(Children(attached, resolved'.row), e) => flex'[e] = flex[e]]_vars

\* C16 witness: the outer row was resolved with "2-1" after the inner row had
\* been resolved with "1-1-1"; the outer columns have 2 and 1, the inner
\* columns 1, 1 and 1.
C16_Witness ==
    /\ resolved.op = "applyLayoutToRow"
    /\ resolved.row = 1
    /\ Children(attached, 1) = << 2, 3 >>
    /\ Children(attached, 4) = << 5, 6, 7 >>
    /\ flex[2] = [set |-> TRUE, grow |-> JSNumber(2), shrink |-> 1, basis |-> 0]
    /\ flex[3] = [set |-> TRUE, grow |-> JSNumber(1), shrink |-> 1, basis |-> 0]
    /\ \A e \in {5, 6, 7} :
          flex[e] = [set |-> TRUE, grow |-> JSNumber(1), shrink |-> 1, basis |-> 0]

\* C17: after applyAllLayouts every row of the document is resolved: child i of
\* a row with n children has grow weight parseLayout(row.layout, n)[i], also
\* for rows without layout or with 'auto' and for rows that changed since an
\* earlier sweep.
C17_SweepResolvesEveryRow ==
    resolved.op = "applyAllLayouts" =>
        \A r \in RowElements :
            InDocument(attached, r) =>
                LET columns == Children(attached, r)
                    ratios == parseLayout(dataLayout[r], Len(columns)).ratios
                IN  \A i \in 1 .. Len(columns) : EffectiveGrow(flex[columns[i]]) = ratios[i]

\* ------------------------------------------------ properties of validation
IsObject(v) == v.typeOf = "object" /\ ~v.falsy
HasTag(v, tag) == IsObject(v) /\ v.type.typeOf = "string" /\ v.type.value = tag
HasItems(v) == v.content.isArray /\ Len(v.content.items) > 0

WellFormedRow(v) == HasTag(v, "row") /\ HasItems(v)
WellFormedSlide(v) ==
    /\ HasTag(v, "slide")
    /\ HasItems(v)
    /\ \A j \in 1 .. Len(v.content.items) : WellFormedRow(v.content.items[j])
WellFormedDoc(v) ==
    /\ HasTag(v, "doc")
    /\ HasItems(v)
    /\ \A i \in 1 .. Len(v.content.items) : WellFormedSlide(v.content.items[i])

\* a path is the chain of zero-based positions from the root to a node
HasChildren(v) == IsObject(v) /\ v.content.isArray
SlidePaths(doc) ==
    IF HasChildren(doc) THEN { << i - 1 >> : i \in 1 .. Len(doc.content.items) } ELSE {}
RowPaths(doc) ==
    UNION { IF HasChildren(doc.content.items[p[1] + 1])
            THEN { << p[1], j - 1 >> :
                       j \in 1 .. Len(doc.content.items[p[1] + 1].content.items) }
            ELSE {} : p \in SlidePaths(doc) }
NodePaths(doc) == { << >> } \cup SlidePaths(doc) \cup RowPaths(doc)

NodeAt(doc, p) ==
    IF Len(p) = 0 THEN doc
    ELSE IF Len(p) = 1 THEN doc.content.items[p[1] + 1]
    ELSE doc.content.items[p[1] + 1].content.items[p[2] + 1]

ExpectedTag(p) == IF Len(p) = 0 THEN "doc" ELSE IF Len(p) = 1 THEN "slide" ELSE "row"

\* the node itself is not what its depth requires
Defective(doc, p) ==
    ~(HasTag(NodeAt(doc, p), ExpectedTag(p)) /\ HasItems(NodeAt(doc, p)))
DefectivePaths(doc) == { p \in NodePaths(doc) : Defective(doc, p) }

\* "doc", "doc.content[i]", "doc.content[i].content[j]"
PathText(p) ==
    IF Len(p) = 0 THEN << "doc" >>
    ELSE IF Len(p) = 1 THEN << "doc", ".content[", ToString(p[1]), "]" >>
    ELSE << "doc", ".content[", ToString(p[1]), "]", ".content[", ToString(p[2]), "]" >>

HasPrefix(message, prefix) ==
    /\ Len(message) >= Len(prefix)
    /\ SubSeq(message, 1, Len(prefix)) = prefix

\* the message is "<path>: <reason>" for the path p and some reason
ReportsAt(message, p) ==
    /\ HasPrefix(message, PathText(p) \o << ": " >>)
    /\ Len(message) > Len(PathText(p)) + 1

Reason(message, p) == SubSeq(message, Len(PathText(p)) + 2, Len(message))

UnexpectedTag(v, tag) ==
    IsObject(v) /\ v.type.typeOf = "string" /\ v.type.value \notin {"", tag}

\* the message names the expected tag and then the actual one
NamesTags(message, expected, got) ==
    \E a, b \in DOMAIN message :
        /\ a + 2 = b
        /\ message[a] = expected
        /\ message[a + 1] = "', got '"
        /\ message[b] = got

\* the failure is reported at a defective node, with its path
PathQualified(doc, message) ==
    \E p \in DefectivePaths(doc) :
        /\ ReportsAt(message, p)
        /\ UnexpectedTag(NodeAt(doc, p), ExpectedTag(p)) =>
              NamesTags(message, ExpectedTag(p), NodeAt(doc, p).type.value)

\* C18: validateContent returns exactly when the candidate is an object of
\* type 'doc' with a non-empty content array of objects of type 'slide', each
\* with a non-empty content array of objects of type 'row', each with a
\* non-empty content array; what a row holds is not looked at.
C18_AcceptsExactlyWellFormed ==
    verdict.op = "validateContent" =>
        /\ verdict.threw = ~WellFormedDoc(candidate)
        /\ verdict.valid = WellFormedDoc(candidate)

\* C18 witness: a document whose second-level row holds a null was accepted.
C18_Witness ==
    /\ verdict.op = "validateContent"
    /\ ~verdict.threw
    /\ \E p \in RowPaths(candidate) : NodeAt(candidate, p).content.items = << "null" >>

RootRejectedByDoc(doc) ==
    /\ IsObject(doc)
    /\ doc.type.typeOf = "string"
    /\ doc.type.value # ""
    /\ Defective(doc, << >>)

C20_PathNamesTheOnlyDefect ==
    verdict.op = "validateContent" =>
        \A p \in NodePaths(candidate) :
            (p # << >> /\ DefectivePaths(candidate) = {p}) =>
                /\ verdict.threw
                /\ ReportsAt(verdict.message, p)
                /\ (/\ Len(p) = 1
                    /\ HasTag(NodeAt(candidate, p), "slide")
                    /\ NodeAt(candidate, p).content = ArrayOf(<< >>)) =>
                       Reason(verdict.message, p) = << "Slide must have at least one row" >>

\* C20 witness: the second of two slides has an empty content array and
\* nothing else is wrong.
C20_Witness ==
    /\ verdict.op = "validateContent"
    /\ DefectivePaths(candidate) = { << 1 >> }
    /\ verdict.message =
           << "doc", ".content[", "1", "]", ": ", "Slide must have at least one row" >>

\* C21: safeValidateContent never throws, returns valid = true exactly when
\* validateContent returns on the same content, and otherwise returns
\* valid = false with the message of the error validateContent throws.
C21_SafeAgreesWithStrict ==
    verdict.op = "safeValidateContent" =>
        LET strict == validateContent(candidate)
        IN  /\ ~verdict.threw
            /\ verdict.valid = strict.ok
            /\ verdict.valid = WellFormedDoc(candidate)
            /\ verdict.error = strict.message

\* C21 witness: the safe entry point reported a row without content array.
C21_Witness ==
    /\ verdict.op = "safeValidateContent"
    /\ ~verdict.valid
    /\ verdict.error =
           << "doc", ".content[", "0", "]", ".content[", "0", "]", ": ",
              "Row must have content array" >>

\* depth-first document order of paths: a node before its children, a slide
\* and its rows before the next slide
Before(p, q) ==
    \/ Len(p) = 0 /\ Len(q) > 0
    \/ /\ Len(p) > 0 /\ Len(q) > 0
       /\ \/ p[1] < q[1]
          \/ p[1] = q[1] /\ Len(p) = 1 /\ Len(q) = 2
          \/ p[1] = q[1] /\ Len(p) = 2 /\ Len(q) = 2 /\ p[2] < q[2]

FirstDefective(doc) ==
    CHOOSE p \in DefectivePaths(doc) : \A q \in DefectivePaths(doc) \ {p} : Before(p, q)

\* the message is about the node at p: it carries the path of p, or is one of
\* the messages of the root that carry none
IsMessageOf(doc, message, p) ==
    IF p = << >> /\ RootRejectedByDoc(doc)
    THEN message[1] \in {"Root node must be type '", "Doc must have content array",
                         "Doc must have at least one slide"}
    ELSE ReportsAt(message, p)

\* C23: the one error reported is that of the first defective node in
\* depth-first document order (the doc, then each slide followed by its rows);
\* of a node with an unexpected tag and a bad content array the tag is what
\* is reported; nodes after the first defective one do not show in the result.
C23_FirstDefectInDocumentOrder ==
    (verdict.op = "validateContent" /\ verdict.threw) =>
        LET p == FirstDefective(candidate)
            node == NodeAt(candidate, p)
        IN  /\ DefectivePaths(candidate) # {}
            /\ IsMessageOf(candidate, verdict.message, p)
            /\ \A q \in DefectivePaths(candidate) \ {p} :
                  ~IsMessageOf(candidate, verdict.message, q)
            /\ UnexpectedTag(node, ExpectedTag(p)) =>
                  NamesTags(verdict.message, ExpectedTag(p), node.type.value)

\* C23 witness: the second row of the first slide and the second slide are
\* both defective, and the row is the one reported.
C23_Witness ==
    /\ verdict.op = "validateContent"
    /\ DefectivePaths(candidate) = { << 0, 1 >>, << 1 >> }
    /\ ReportsAt(verdict.message, << 0, 1 >>)

\* ------------------------------------------------ further properties of navigation
AllVisibleUnmarked(ss) == \A k \in 1 .. Len(ss) : Visible(ss[k]) /\ ~MarkedActive(ss[k])

\* C26: showSlide(i) with a valid i applied again changes nothing, nor does
\* showAllSlides applied again; getCurrentSlideIndex changes no slide and
\* returns the same value when repeated, also before anything was written.
C26_WritesAndReadsAreIdempotent ==
    [][/\ (/\ call.op = "showSlide" /\ call'.op = "showSlide"
           /\ call'.arg = call.arg /\ InRange(slides, call.arg)) => slides' = slides
       /\ (call.op = "showAllSlides" /\ call'.op = "showAllSlides") => slides' = slides
       /\ call'.op = "getCurrentSlideIndex" => slides' = slides
       /\ (call.op = "getCurrentSlideIndex" /\ call'.op = "getCurrentSlideIndex") =>
              call'.ret = call.ret
       /\ (call.op = "none" /\ call'.op = "getCurrentSlideIndex") => call'.ret = 0]_vars

\* C26 witness: showSlide(1) acted on slides that showSlide(1) had left.
C26_Witness ==
    /\ call.op = "showSlide"
    /\ call.arg = 1
    /\ OnlyShown(call.pre, 1)
    /\ Len(slides) >= 2
    /\ slides = call.pre

\* C28: with no slide marked on a collection of at least two slides, nextSlide
\* makes slide 1 the single active slide and notifies 1, and prevSlide changes
\* nothing, warns nothing and notifies nothing: all slides stay visible and
\* unmarked.
C28_UnmarkedCountsAsSlideZero ==
    (Len(call.pre) >= 2 /\ ~HasActive(call.pre)) =>
        /\ call.op = "nextSlide" =>
              /\ OnlyShown(slides, 1)
              /\ call.warned = << >>
              /\ Len(call.notified) = (IF call.cb THEN 1 ELSE 0)
              /\ \A k \in 1 .. Len(call.notified) : call.notified[k].index = 1
        /\ call.op = "prevSlide" =>
              /\ slides = call.pre
              /\ AllVisibleUnmarked(slides)
              /\ call.warned = << >>
              /\ call.notified = << >>

\* C28 witness: nextSlide with a callback was the first call on three freshly
\* rendered slides.
C28_Witness ==
    /\ call.op = "nextSlide"
    /\ call.cb
    /\ call.pre = << FreshSlide, FreshSlide, FreshSlide >>
    /\ OnlyShown(slides, 1)
    /\ everNotified = {1}

\* ------------------------------------------------ properties of the editor component
\* a commit of the component: its first render or a later one
IsCommit == commit.kind \in {"mount", "update"}

\* the error handler of the props was handed a ValidationError
HandlerGotValidationError ==
    \E k \in 1 .. Len(commit.errors) :
        commit.errors[k].to = "onError" /\ commit.errors[k].name = "ValidationError"

\* C22: whenever the content of a commit fails validation, at mount or on a
\* later update, no view is created from it, no sweep is scheduled by that
\* commit, nothing is rendered, and the error handler, if there is one,
\* receives the ValidationError.
C22_ValidationFailureBlocksRendering ==
    (IsCommit /\ commit.validated = "ValidationError") =>
        /\ ~commit.created
        /\ commit.scheduled = 0
        /\ rendered = << >>
        /\ props.onError => HandlerGotValidationError

\* exactly one slide is visible and marked active, every other one is hidden
ExactlyOneShown(ss) == \E i \in 0 .. (Len(ss) - 1) : OnlyShown(ss, i)

NoneMarked(ss) == \A k \in 1 .. Len(ss) : ~MarkedActive(ss[k])

EntersPresentation ==
    phase = "mounted" /\ props.editorMode # "present" /\ props'.editorMode = "present"

LeavesPresentation ==
    phase = "mounted" /\ props.editorMode = "present" /\ props'.editorMode # "present"

\* C24 as stated: no slide is marked after a mount in edit or preview mode;
\* every transition into presentation mode with slides rendered leaves exactly
\* one slide visible and active; a key step keeps exactly one slide visible and active; every
\* transition out of presentation mode leaves all slides visible and unmarked.
C24_MarkerLifecycle ==
    [][/\ (commit'.kind = "mount" /\ props'.editorMode # "present") => NoneMarked(rendered')
       /\ (EntersPresentation /\ rendered' # << >>) => ExactlyOneShown(rendered')
       /\ (commit'.kind \in Keys /\ ExactlyOneShown(rendered)) => ExactlyOneShown(rendered')
       /\ LeavesPresentation => AllVisibleUnmarked(rendered')]_vars

\* C24 amended: as C24, where a transition into presentation mode leaves
\* exactly the current slide visible and active when the current slide is one
\* of the rendered slides, and leaves the rendered slides without a marker
\* otherwise.
C24_MarkerLifecycleInRange ==
    [][/\ (commit'.kind = "mount" /\ props'.editorMode # "present") => NoneMarked(rendered')
       /\ EntersPresentation =>
              IF InRange(rendered', props'.currentSlide)
              THEN OnlyShown(rendered', props'.currentSlide)
              ELSE NoneMarked(rendered')
       /\ (commit'.kind \in Keys /\ ExactlyOneShown(rendered)) => ExactlyOneShown(rendered')
       /\ LeavesPresentation => AllVisibleUnmarked(rendered')]_vars

\* C24 witness: an update took the component from edit mode into presentation
\* mode with the second of its slides current: that slide alone is shown.
C24_Witness ==
    /\ commit.kind = "update"
    /\ commit.prevMode = "edit"
    /\ props.editorMode = "present"
    /\ props.currentSlide = 1
    /\ Len(rendered) >= 2
    /\ OnlyShown(rendered, 1)
    /\ keydown

\* C25: a commit that rebuilds the rendered tree schedules a sweep and runs
\* none itself; a timer that fires without the editor element sweeps nothing;
\* and no state of the mounted component without a pending timer has a
\* rendered tree that was changed and not swept.
C25_NoUnsweptTreeWhenQuiescent ==
    /\ (IsCommit /\ commit.created) => (commit.scheduled >= 1 /\ ~commit.swept)
    /\ (commit.kind = "timer" /\ ~editorRef) => ~commit.swept
    /\ (phase = "mounted" /\ pending = 0) => ~unswept

\* C27: while the mounted component is in presentation mode with a current
\* slide that is one of the rendered slides, and no timer is pending, exactly
\* one slide is visible and marked active.
C27_OneActiveSlideWhilePresenting ==
    (/\ phase = "mounted"
     /\ pending = 0
     /\ props.editorMode = "present"
     /\ InRange(rendered, props.currentSlide)) => ExactlyOneShown(rendered)

\* C29: once the effects of a mount, an update or an unmount have run, the
\* stored view reference is null or refers to a view that is not destroyed.
C29_ViewRefNeverStale == viewRef \in {"null", "alive"}

\* ------------------------------------------------ properties of the hook
Count(calls, name) == Cardinality({k \in 1 .. Len(calls) : calls[k] = name})

\* C30: for a mount of the hook onCreate is invoked at most once, onDestroy at
\* most once, and every onDestroy has an onCreate before it.
C30_CallbacksPaired ==
    /\ Count(hook.calls, "onCreate") <= 1
    /\ Count(hook.calls, "onDestroy") <= 1
    /\ \A k \in 1 .. Len(hook.calls) :
           hook.calls[k] = "onDestroy" => \E j \in 1 .. (k - 1) : hook.calls[j] = "onCreate"

====
